---- MODULE Spec2Model ----
(***************************************************************************)
(* Model of decimate.py: the batch STL pipeline of                         *)
(* process_and_write_dimensions and process_stl, over an explicit file     *)
(* system and an explicit host (Blender) scene.                            *)
(*                                                                         *)
(* Strings of the program are sequences of one-character strings, so that  *)
(* os.path.join, dirname, splitext, relpath and str.endswith are computed  *)
(* character by character as posixpath computes them.                      *)
(***************************************************************************)
EXTENDS FiniteSets, Integers, Sequences, TLC

(* ------------------------------ bounds --------------------------------- *)
\* number of files the input tree holds at most when the first run starts
MaxFiles == 2
\* the value given to --resize when it is given
ResizeFactor == 2

(* ------------------------------ strings -------------------------------- *)
\* Python's None (distinct from every string, the empty string included)
None == <<"None">>

SEP == "/"

DOT == "."

STL_EXT == <<".", "s", "t", "l">>

DimensionsFileName ==
  <<"d", "i", "m", "e", "n", "s", "i", "o", "n", "s", ".", "t", "x", "t">>

Max(S) == CHOOSE x \in S : \A y \in S : y <= x

Min(S) == CHOOSE x \in S : \A y \in S : x <= y

\* str.rfind(c) + 1: the 1-based index of the last c in s, 0 when absent
LastIndex(s, c) == Max({0} \cup {i \in 1..Len(s) : s[i] = c})

\* str.find(c) + 1
FirstIndex(s, c) ==
  IF \E i \in 1..Len(s) : s[i] = c
  THEN Min({i \in 1..Len(s) : s[i] = c})
  ELSE 0

\* str.endswith(suffix)
EndsWith(s, suffix) ==
  /\ Len(s) >= Len(suffix)
  /\ SubSeq(s, Len(s) - Len(suffix) + 1, Len(s)) = suffix

\* str.rstrip("/")
RECURSIVE RStripSep(_)
RStripSep(s) ==
  IF s # <<>> /\ s[Len(s)] = SEP THEN RStripSep(SubSeq(s, 1, Len(s) - 1)) ELSE s

\* posixpath.join(a, b)
Join(a, b) ==
  IF b # <<>> /\ b[1] = SEP THEN b
  ELSE IF a = <<>> \/ a[Len(a)] = SEP THEN a \o b
  ELSE a \o <<SEP>> \o b

\* posixpath.dirname(p)
Dirname(p) ==
  LET head == SubSeq(p, 1, LastIndex(p, SEP))
  IN IF head # <<>> /\ \E k \in 1..Len(head) : head[k] # SEP
     THEN RStripSep(head)
     ELSE head

\* posixpath.splitext(p): <<root, ext>>; leading dots of the last component
\* do not start an extension
Splitext(p) ==
  LET sepIndex == LastIndex(p, SEP)
      dotIndex == LastIndex(p, DOT)
  IN IF /\ dotIndex > sepIndex
        /\ \E k \in (sepIndex + 1)..(dotIndex - 1) : p[k] # DOT
     THEN <<SubSeq(p, 1, dotIndex - 1), SubSeq(p, dotIndex, Len(p))>>
     ELSE <<p, <<>>>>

\* p.split("/") without the empty components
RECURSIVE Tokens(_)
Tokens(p) ==
  IF p = <<>> THEN <<>>
  ELSE LET i == FirstIndex(p, SEP)
       IN IF i = 0 THEN <<p>>
          ELSE (IF i = 1 THEN <<>> ELSE <<SubSeq(p, 1, i - 1)>>)
               \o Tokens(SubSeq(p, i + 1, Len(p)))

\* posixpath.normpath of an absolute path, as its list of components:
\* "." is dropped and ".." removes the component before it
RECURSIVE NormFold(_, _)
NormFold(toks, acc) ==
  IF toks = <<>> THEN acc
  ELSE LET t == Head(toks)
       IN IF t = <<DOT>> THEN NormFold(Tail(toks), acc)
          ELSE IF t = <<DOT, DOT>>
          THEN NormFold(Tail(toks),
                        IF acc = <<>> THEN acc ELSE SubSeq(acc, 1, Len(acc) - 1))
          ELSE NormFold(Tail(toks), Append(acc, t))

NormComps(p) == NormFold(Tokens(p), <<>>)

\* "/".join(list)
RECURSIVE JoinComps(_)
JoinComps(list) ==
  IF list = <<>> THEN <<>>
  ELSE IF Len(list) = 1 THEN list[1]
  ELSE list[1] \o <<SEP>> \o JoinComps(Tail(list))

\* length of the common prefix of two component lists
CommonPrefix(a, b) ==
  Max({n \in 0..Min({Len(a), Len(b)}) : SubSeq(a, 1, n) = SubSeq(b, 1, n)})

\* posixpath.relpath(path, start) for absolute path and start
Relpath(path, start) ==
  LET start_list == NormComps(start)
      path_list == NormComps(path)
      i == CommonPrefix(start_list, path_list)
      rel_list == [k \in 1..(Len(start_list) - i) |-> <<DOT, DOT>>]
                  \o SubSeq(path_list, i + 1, Len(path_list))
  IN IF rel_list = <<>> THEN <<DOT>> ELSE JoinComps(rel_list)

\* posixpath.basename(p)
Basename(p) == SubSeq(p, LastIndex(p, SEP) + 1, Len(p))

\* "\n".join(lines)
RECURSIVE JoinLines(_)
JoinLines(lines) ==
  IF lines = <<>> THEN <<>>
  ELSE IF Len(lines) = 1 THEN lines[1]
  ELSE lines[1] \o <<"\n">> \o JoinLines(Tail(lines))

DigitChars == <<"0", "1", "2", "3", "4", "5", "6", "7", "8", "9">>

RECURSIVE Digits(_)
Digits(n) ==
  IF n < 10 THEN <<DigitChars[n + 1]>>
  ELSE Digits(n \div 10) \o <<DigitChars[(n % 10) + 1]>>

\* format(d, ".3f") for the whole-number extents of the model's meshes
Fmt3(d) == Digits(d) \o <<".", "0", "0", "0">>

\* a line that leaves the file name out
FormatLineNoName(filename, dimensions) ==
  Fmt3(dimensions[1]) \o <<",", " ">> \o Fmt3(dimensions[2]) \o <<",", " ">>
                      \o Fmt3(dimensions[3])

\* f"{filename}: {dimensions[0]:.3f}, {dimensions[1]:.3f}, {dimensions[2]:.3f}"
FormatLine(filename, dimensions) ==
  filename \o <<":", " ">> \o Fmt3(dimensions[1]) \o <<",", " ">>
           \o Fmt3(dimensions[2]) \o <<",", " ">> \o Fmt3(dimensions[3])

(* ---------------------------- file contents ---------------------------- *)
\* An STL file that imports as a mesh: its identity, how many decimations
\* and resizes are baked into it, and how many mesh objects it holds.
Mesh(id) ==
  [kind |-> "mesh", id |-> id, dec |-> 0, res |-> 0, objs |-> 1, text |-> <<>>]

\* A corrupt or empty STL file: the host imports nothing from it.
Junk(id) ==
  [kind |-> "junk", id |-> id, dec |-> 0, res |-> 0, objs |-> 0, text |-> <<>>]

\* A text file (dimensions.txt)
TextFile(text) ==
  [kind |-> "text", id |-> 0, dec |-> 0, res |-> 0, objs |-> 0, text |-> text]

\* local extents of the vertices of mesh id (a box)
Extent(id) == <<1, id, 2>>

RECURSIVE Pow(_, _)
Pow(b, n) == IF n = 0 THEN 1 ELSE b * Pow(b, n - 1)

(* ----------------------------- file system ----------------------------- *)
\* A directory or file is named by its list of components from "/".
\* Kernel path resolution: every component that is walked through, ".."
\* included, must be an existing directory.
RECURSIVE Walk(_, _, _)
Walk(ds, toks, cur) ==
  IF toks = <<>> THEN [ok |-> TRUE, at |-> cur]
  ELSE IF cur \notin ds THEN [ok |-> FALSE, at |-> <<>>]
  ELSE LET t == Head(toks)
       IN IF t = <<DOT>> THEN Walk(ds, Tail(toks), cur)
          ELSE IF t = <<DOT, DOT>>
          THEN Walk(ds, Tail(toks),
                    IF cur = <<>> THEN cur ELSE SubSeq(cur, 1, Len(cur) - 1))
          ELSE Walk(ds, Tail(toks), Append(cur, t))

Lookup(ds, p) == Walk(ds, Tokens(p), <<>>)

IsDir(ds, p) == Lookup(ds, p).ok /\ Lookup(ds, p).at \in ds

IsFile(ds, fs, p) == Lookup(ds, p).ok /\ Lookup(ds, p).at \in DOMAIN fs

Prefixes(c) == {SubSeq(c, 1, n) : n \in 0..Len(c)}

\* os.makedirs(p) without exist_ok: it also raises when p exists
MakeDirsNoExistOk(ds, fs, p) ==
  LET want == Prefixes(NormComps(p))
  IN IF want \cap DOMAIN fs # {} \/ NormComps(p) \in ds
     THEN [ok |-> FALSE, dirs |-> ds]
     ELSE [ok |-> TRUE, dirs |-> ds \cup want]

\* os.makedirs(p, exist_ok=True): every missing directory on the way is
\* created; it raises when a component exists and is a file
MakeDirs(ds, fs, p) ==
  LET want == Prefixes(NormComps(p))
  IN IF want \cap DOMAIN fs # {}
     THEN [ok |-> FALSE, dirs |-> ds]
     ELSE [ok |-> TRUE, dirs |-> ds \cup want]

\* open(p, "w") and write: needs the parent directory, and p not a directory
WriteFile(ds, fs, p, content) ==
  LET t == Lookup(ds, p)
  IN IF t.ok /\ t.at \notin ds
     THEN [ok |-> TRUE,
           files |-> [q \in DOMAIN fs \cup {t.at} |->
                        IF q = t.at THEN content ELSE fs[q]]]
     ELSE [ok |-> FALSE, files |-> fs]

\* shutil.copy(src, dst): into dst when dst is a directory; SameFileError
\* when both name the same file
Copy(ds, fs, src, dst) ==
  LET dst1 == IF IsDir(ds, dst) THEN Join(dst, Basename(src)) ELSE dst
      s == Lookup(ds, src)
      d == Lookup(ds, dst1)
  IN IF ~(s.ok /\ s.at \in DOMAIN fs) THEN [ok |-> FALSE, files |-> fs]
     ELSE IF d.ok /\ d.at = s.at THEN [ok |-> FALSE, files |-> fs]
     ELSE WriteFile(ds, fs, dst1, fs[s.at])

\* names of the files (not directories) directly in directory c
FileNamesIn(fs, c) ==
  {q[Len(q)] : q \in {r \in DOMAIN fs : Len(r) = Len(c) + 1 /\ SubSeq(r, 1, Len(c)) = c}}

\* a listing that reports no subdirectory
DirNamesInNone(ds, c) == {}

\* names of the directories directly in directory c
DirNamesIn(ds, c) ==
  {q[Len(q)] : q \in {r \in ds : Len(r) = Len(c) + 1 /\ SubSeq(r, 1, Len(c)) = c}}

\* the orders in which the operating system may list a set of names
Orders(S) ==
  {o \in [1..Cardinality(S) -> S] : \A i, j \in 1..Cardinality(S) : i # j => o[i] # o[j]}

(* ------------------------------ host scene ----------------------------- *)
\* The host scene: its mesh objects, and the indices of the selected ones.
EmptyScene == [objs |-> <<>>, sel |-> <<>>]

\* a clearing that deselects and deletes nothing
ClearSceneDeselectOnly(sc) == [sc EXCEPT !.sel = <<>>]

\* select_all(DESELECT); select_by_type(MESH); delete(): no mesh is left
ClearScene(sc) == EmptyScene

\* an import that leaves a selected object for whatever file it is given
ImportStlAnyFile(sc, ds, fs, filepath) ==
  IF IsFile(ds, fs, filepath)
  THEN [objs |-> Append(sc.objs, [src |-> fs[Lookup(ds, filepath).at],
                                  dec |-> 0, res |-> 0, baked |-> FALSE]),
        sel |-> <<Len(sc.objs) + 1>>]
  ELSE sc

\* import_mesh.stl(filepath): a mesh file becomes one new selected (and
\* active) object; from anything else the host loads nothing
ImportStl(sc, ds, fs, filepath) ==
  IF IsFile(ds, fs, filepath) /\ fs[Lookup(ds, filepath).at].kind = "mesh"
  THEN [objs |-> Append(sc.objs, [src |-> fs[Lookup(ds, filepath).at],
                                  dec |-> 0, res |-> 0, baked |-> FALSE]),
        sel |-> <<Len(sc.objs) + 1>>]
  ELSE sc

\* bpy.context.selected_objects is not empty
HasSelection(sc) == sc.sel # <<>>

\* modifier_add(DECIMATE) with the ratio, when a ratio is given;
\* transform.resize, when a factor is given; convert(target=MESH)
Transform(sc, ratio, factor) ==
  LET k == sc.sel[1]
      o == sc.objs[k]
  IN [sc EXCEPT !.objs[k] =
        [src |-> o.src,
         dec |-> IF ratio # None THEN o.dec + 1 ELSE o.dec,
         res |-> IF factor # None THEN o.res + 1 ELSE o.res,
         baked |-> TRUE]]

RECURSIVE CountObjs(_)
CountObjs(objs) ==
  IF objs = <<>> THEN 0 ELSE Head(objs).src.objs + CountObjs(Tail(objs))

\* export_mesh.stl writes every mesh object of the scene (use_selection is
\* left at its default) with its modifiers and scale applied
ExportContent(sc) ==
  LET o == sc.objs[Len(sc.objs)]
  IN [kind |-> "mesh", id |-> o.src.id, dec |-> o.src.dec + o.dec,
      res |-> o.src.res + o.res, objs |-> CountObjs(sc.objs), text |-> <<>>]

\* extents of the object's local vertex coordinates
LocalExtent(o, f) ==
  [k \in 1..3 |-> Extent(o.src.id)[k] * Pow(f, o.src.res)]

\* get_axis_aligned_bounding_box(obj)
get_axis_aligned_bounding_box(o, f) == LocalExtent(o, f)

\* the three values of d, largest first
SortDesc(d) ==
  CHOOSE s \in [1..3 -> {d[1], d[2], d[3]}] :
    /\ s[1] >= s[2] /\ s[2] >= s[3]
    /\ \E p \in Orders({1, 2, 3}) : \A k \in 1..3 : s[k] = d[p[k]]

\* get_oriented_bounding_box(obj): extents of the world-space vertices in
\* the principal frame; for a box mesh the principal axes are the box axes,
\* ordered by decreasing variance, that is by decreasing extent
get_oriented_bounding_box(o, f) ==
  SortDesc([k \in 1..3 |-> LocalExtent(o, f)[k] * Pow(f, o.res)])

(* ------------------------------- inputs -------------------------------- *)
N_i == <<"i">>

N_o == <<"o">>

N_x == <<"x">>

N_a == <<"a", ".", "s", "t", "l">>

N_b == <<"b", ".", "s", "t", "l">>

N_c == <<"c", ".", "S", "T", "L">>

\* --input
InputRoots == {<<SEP>> \o N_i}

\* --output: outside the input tree, inside it, and the input root itself
OutputRoots ==
  {<<SEP>> \o N_o, <<SEP>> \o N_i \o <<SEP>> \o N_o, <<SEP>> \o N_i}

\* --prepend and --append
NamingRules ==
  {<<None, None>>, <<<<"p", "_">>, <<"_", "v">>>>, <<<<"x", SEP>>, None>>}

\* --decimation-ratio
Ratios == {None, <<"float", 1>>}

\* --resize
Factors == {None, <<"float", ResizeFactor>>}

\* --dimensions and --dimension-method, and whether the output directory
\* already holds a report of an earlier use: <<flag, method, stale>>
ReportOptions ==
  {<<FALSE, "axis-aligned", FALSE>>, <<TRUE, "obb", FALSE>>,
   <<TRUE, "axis-aligned", TRUE>>}

\* the files an input tree may hold: <<components, content>>
CandidateFiles ==
  {<<<<N_i, N_a>>, Mesh(1)>>, <<<<N_i, N_a>>, Junk(1)>>,
   <<<<N_i, N_b>>, Mesh(2)>>,
   <<<<N_i, N_c>>, Mesh(3)>>,
   <<<<N_i, N_x, N_a>>, Mesh(4)>>, <<<<N_i, N_x, N_a>>, Junk(4)>>}

InputTrees ==
  {T \in SUBSET CandidateFiles :
     /\ Cardinality(T) <= MaxFiles
     /\ \A s, t \in T : s[1] = t[1] => s = t}

\* a report left in the output directory by an earlier use of it
StaleReport == TextFile(FormatLine(N_b, <<9, 9, 9>>))

(* -------------------------------- state -------------------------------- *)
VARIABLES
  input_directory, output_directory, decimation_ratio, resize_factor,
  prepend_str, append_str, recursive, dimensions_flag, dimension_method,
  dirs,             \* the directories of the file system
  files,            \* the files of the file system and their contents
  scene,            \* the host's scene
  pc,               \* where process_and_write_dimensions stands
  stack,            \* os.walk: the directories still to be listed
  root,             \* os.walk: the directory being iterated
  todo,             \* the file names of the current listing not yet iterated
  dimension_lines,
  stdout,           \* what the run printed
  run,              \* which invocation this is: the first or the second
  tree0,            \* history: the files when this invocation started
  dirs0,            \* history: the directories when it started
  visited,          \* history: the .stl files this invocation reached
  writes,           \* history: the file writes this invocation attempted
  first_run         \* history: the files when the first invocation ended

args == <<input_directory, output_directory, decimation_ratio, resize_factor,
          prepend_str, append_str, recursive, dimensions_flag, dimension_method>>

vars == <<args, dirs, files, scene, pc, stack, root, todo, dimension_lines,
          stdout, run, tree0, dirs0, visited, writes, first_run>>

use_blender == decimation_ratio # None \/ resize_factor # None

FactorValue == IF resize_factor = None THEN 1 ELSE resize_factor[2]

NoFiles == [q \in {} |-> Mesh(0)]

Init ==
  /\ input_directory \in InputRoots
  /\ output_directory \in OutputRoots
  /\ decimation_ratio \in Ratios
  /\ resize_factor \in Factors
  /\ \E rule \in NamingRules : prepend_str = rule[1] /\ append_str = rule[2]
  /\ recursive \in BOOLEAN
  /\ \E T \in InputTrees, opt \in ReportOptions :
       LET stale == opt[3]
           given == [q \in {t[1] : t \in T} |->
                       (CHOOSE t \in T : t[1] = q)[2]]
           out == NormComps(output_directory)
           report == Append(out, DimensionsFileName)
       IN /\ dimensions_flag = opt[1]
          /\ dimension_method = opt[2]
          /\ dirs = UNION {Prefixes(SubSeq(t[1], 1, Len(t[1]) - 1)) : t \in T}
                    \cup Prefixes(NormComps(input_directory))
                    \cup (IF stale THEN Prefixes(out) ELSE {})
          /\ files = IF stale
                     THEN [q \in DOMAIN given \cup {report} |->
                             IF q = report THEN StaleReport ELSE given[q]]
                     ELSE given
  /\ scene = EmptyScene
  /\ pc = IF recursive THEN "walk" ELSE "listdir"
  /\ stack = IF recursive THEN <<input_directory>> ELSE <<>>
  /\ root = <<>>
  /\ todo = <<>>
  /\ dimension_lines = <<>>
  /\ stdout = <<>>
  /\ run = 1
  /\ tree0 = files
  /\ dirs0 = dirs
  /\ visited = <<>>
  /\ writes = <<>>
  /\ first_run = NoFiles

(* ------------------------------ process_stl ---------------------------- *)
\* What one attempted write of a file is remembered as.
WriteRecord(kind, ds, path, res, content) ==
  [kind |-> kind, path |-> path, parent |-> IsDir(ds, Dirname(path)),
   ok |-> res.ok, at |-> Lookup(ds, path).at, content |-> content,
   nth |-> Len(visited) + 1]

\* process_stl(input_path, output_path, decimation_ratio, resize_factor):
\* the scene it leaves, the files it leaves, what it prints, the write it
\* attempts, and whether it returns (the export raises when it cannot write)
process_stl(sc, ds, fs, input_path, output_path) ==
  LET sc1 == ImportStl(ClearScene(sc), ds, fs, input_path)
  IN IF HasSelection(sc1)
     THEN LET sc2 == Transform(sc1, decimation_ratio, resize_factor)
              w == WriteFile(ds, fs, output_path, ExportContent(sc2))
          IN [scene |-> sc2, files |-> w.files, ok |-> w.ok, printed |-> <<>>,
              writes |-> <<WriteRecord("export", ds, output_path, w,
                                       ExportContent(sc2))>>]
     ELSE [scene |-> sc1, files |-> fs, ok |-> TRUE,
           printed |-> <<[msg |-> "Skipping", path |-> input_path]>>,
           writes |-> <<>>]

\* a copy that goes to the path before renaming
copy_file_unrenamed(sc, ds, fs, input_path, output_path) ==
  LET plain == Join(Dirname(output_path), Basename(input_path))
      w == Copy(ds, fs, input_path, plain)
  IN [scene |-> sc, files |-> w.files, ok |-> w.ok, printed |-> <<>>,
      writes |-> <<WriteRecord("copy", ds, plain, w,
                               fs[Lookup(ds, input_path).at])>>]

\* the branch of the loop body that copies when no transform is requested
copy_file(sc, ds, fs, input_path, output_path) ==
  LET w == Copy(ds, fs, input_path, output_path)
  IN [scene |-> sc, files |-> w.files, ok |-> w.ok, printed |-> <<>>,
      writes |-> <<WriteRecord("copy", ds, output_path, w,
                               fs[Lookup(ds, input_path).at])>>]

(* --------------------- process_and_write_dimensions -------------------- *)
\* the output path of the loop body, before renaming
OutputPath(top, filename) ==
  Join(output_directory, Relpath(Join(top, filename), input_directory))

\* the file name after prepend_str and append_str are applied to its base
RenamedName(filename) ==
  LET base_filename == Splitext(filename)[1]
      ext == Splitext(filename)[2]
      b1 == IF prepend_str # None THEN prepend_str \o base_filename
            ELSE base_filename
      b2 == IF append_str # None THEN b1 \o append_str ELSE b1
  IN b2 \o ext

\* a renamed output path that forgets the directory of the relative path
NewOutputPathFlat(top, filename) ==
  Join(output_directory, RenamedName(filename))

\* the renamed output path of the loop body
NewOutputPath(top, filename) ==
  Join(Dirname(OutputPath(top, filename)), RenamedName(filename))

\* the dimensions the loop body computes for the selected object
Dimensions(o) ==
  IF dimension_method = "obb"
  THEN get_oriented_bounding_box(o, FactorValue)
  ELSE [k \in 1..3 |->
          get_axis_aligned_bounding_box(o, FactorValue)[k]
          * (IF resize_factor # None THEN FactorValue ELSE 1)]

\* The body of the loop for one file name ending in ".stl" found in
\* directory top.
ProcessFile(top, filename) ==
  LET input_path == Join(top, filename)
      output_path == OutputPath(top, filename)
      new_output_path == NewOutputPath(top, filename)
      mk == MakeDirs(dirs, files, Dirname(output_path))
      sc1 == ImportStl(ClearScene(scene), mk.dirs, files, input_path)
      seen == [path |-> Lookup(dirs, input_path).at, name |-> filename,
               src |-> files[Lookup(dirs, input_path).at],
               loaded |-> HasSelection(sc1),
               outdir |-> Dirname(output_path), out |-> new_output_path]
  IN IF ~mk.ok
     THEN /\ pc' = "crashed"
          /\ visited' = Append(visited, [seen EXCEPT !.loaded = FALSE])
          /\ UNCHANGED <<dirs, files, scene, dimension_lines, stdout, writes>>
     ELSE
       /\ dirs' = mk.dirs
       /\ visited' = Append(visited, seen)
       /\ IF HasSelection(sc1)
          THEN LET sc2 == IF use_blender
                          THEN Transform(sc1, decimation_ratio, resize_factor)
                          ELSE sc1
                   obj == sc2.objs[sc2.sel[1]]
                   r == IF use_blender
                        THEN process_stl(sc2, mk.dirs, files, input_path,
                                         new_output_path)
                        ELSE copy_file(sc2, mk.dirs, files, input_path,
                                       new_output_path)
               IN /\ dimension_lines' =
                       Append(dimension_lines, FormatLine(filename, Dimensions(obj)))
                  /\ scene' = r.scene
                  /\ files' = r.files
                  /\ stdout' = stdout \o r.printed
                  /\ writes' = writes \o r.writes
                  /\ pc' = IF r.ok THEN pc ELSE "crashed"
          ELSE /\ scene' = sc1
               /\ UNCHANGED <<files, dimension_lines, stdout, writes, pc>>

\* os.walk(input_directory) yields its next directory: the directory is
\* listed when the walk reaches it, its files are iterated next and its
\* subdirectories are walked after them
WalkNext ==
  /\ pc = "walk" /\ todo = <<>> /\ stack # <<>>
  /\ LET top == Head(stack)
         t == Lookup(dirs, top)
     IN IF t.ok /\ t.at \in dirs
        THEN \E forder \in Orders(FileNamesIn(files, t.at)),
                dorder \in Orders(DirNamesIn(dirs, t.at)) :
               /\ root' = top
               /\ todo' = forder
               /\ stack' = [k \in 1..Len(dorder) |-> Join(top, dorder[k])]
                           \o Tail(stack)
        ELSE /\ stack' = Tail(stack)
             /\ UNCHANGED <<root, todo>>
  /\ UNCHANGED <<args, dirs, files, scene, pc, dimension_lines, stdout, run,
                 tree0, dirs0, visited, writes, first_run>>

\* one iteration of "for filename in files" of the recursive branch
VisitWalk ==
  /\ pc = "walk" /\ todo # <<>>
  /\ todo' = Tail(todo)
  /\ IF EndsWith(Head(todo), STL_EXT)
     THEN ProcessFile(root, Head(todo))
     ELSE UNCHANGED <<dirs, files, scene, pc, dimension_lines, stdout,
                      visited, writes>>
  /\ UNCHANGED <<args, stack, root, run, tree0, dirs0, first_run>>

\* files = [f for f in os.listdir(input_directory) if f.endswith(".stl")]
ListDir ==
  /\ pc = "listdir"
  /\ LET c == Lookup(dirs, input_directory).at
         names == {n \in FileNamesIn(files, c) \cup DirNamesIn(dirs, c) :
                     EndsWith(n, STL_EXT)}
     IN \E order \in Orders(names) : todo' = order
  /\ pc' = "loop"
  /\ UNCHANGED <<args, dirs, files, scene, stack, root, dimension_lines,
                 stdout, run, tree0, dirs0, visited, writes, first_run>>

\* one iteration of "for filename in files" of the non-recursive branch
VisitList ==
  /\ pc = "loop" /\ todo # <<>>
  /\ todo' = Tail(todo)
  /\ ProcessFile(input_directory, Head(todo))
  /\ UNCHANGED <<args, stack, root, run, tree0, dirs0, first_run>>

\* the path of the report
dimensions_file_path == Join(output_directory, DimensionsFileName)

\* a plausible slip of the condition: the flag is not looked at
ShouldWriteReportNoFlag == dimension_lines # <<>>

\* if dimensions_flag and dimension_lines:
ShouldWriteReport == dimensions_flag /\ dimension_lines # <<>>

\* after the loop: the report is written when asked for and not empty, and
\* "Done." is printed
Finish ==
  /\ \/ pc = "walk" /\ todo = <<>> /\ stack = <<>>
     \/ pc = "loop" /\ todo = <<>>
  /\ IF ShouldWriteReport
     THEN LET content == TextFile(JoinLines(dimension_lines))
              w == WriteFile(dirs, files, dimensions_file_path, content)
          IN /\ files' = w.files
             /\ writes' = Append(writes,
                                 [WriteRecord("report", dirs, dimensions_file_path,
                                              w, content) EXCEPT !.nth = 0])
             /\ pc' = IF w.ok THEN "done" ELSE "crashed"
             /\ stdout' = IF w.ok THEN Append(stdout, [msg |-> "Done.", path |-> <<>>])
                          ELSE stdout
             /\ first_run' = IF w.ok /\ run = 1 THEN w.files ELSE first_run
     ELSE /\ pc' = "done"
          /\ stdout' = Append(stdout, [msg |-> "Done.", path |-> <<>>])
          /\ first_run' = IF run = 1 THEN files ELSE first_run
          /\ UNCHANGED <<files, writes>>
  /\ UNCHANGED <<args, dirs, scene, stack, root, todo, dimension_lines, run,
                 tree0, dirs0, visited>>

\* the copy-only program is invoked a second time with the same arguments,
\* in a new host session, on the file system the first invocation left
Rerun ==
  /\ pc = "done" /\ run = 1 /\ ~use_blender
  /\ run' = 2
  /\ scene' = EmptyScene
  /\ pc' = IF recursive THEN "walk" ELSE "listdir"
  /\ stack' = IF recursive THEN <<input_directory>> ELSE <<>>
  /\ root' = <<>>
  /\ todo' = <<>>
  /\ dimension_lines' = <<>>
  /\ stdout' = <<>>
  /\ tree0' = files
  /\ dirs0' = dirs
  /\ visited' = <<>>
  /\ writes' = <<>>
  /\ UNCHANGED <<args, dirs, files, first_run>>

Next == WalkNext \/ VisitWalk \/ ListDir \/ VisitList \/ Finish \/ Rerun

Spec == Init /\ [][Next]_vars

(* ------------------------ vocabulary of the claims --------------------- *)
InputComps == NormComps(input_directory)

OutputComps == NormComps(output_directory)

ReportComps == Append(OutputComps, DimensionsFileName)

Ended == pc \in {"done", "crashed"}

\* q lies in the subtree of the input root
InTree(q) ==
  Len(q) > Len(InputComps) /\ SubSeq(q, 1, Len(InputComps)) = InputComps

\* q is a direct child of the input root
DirectChild(q) == InTree(q) /\ Len(q) = Len(InputComps) + 1

IsStlName(q) == EndsWith(q[Len(q)], STL_EXT)

VisitedPaths == {visited[k].path : k \in 1..Len(visited)}

\* the absolute path string of a list of components
PathOf(q) == <<SEP>> \o JoinComps(q)

HasSep(s) == s # None /\ \E k \in 1..Len(s) : s[k] = SEP

\* neither --prepend nor --append holds a path separator
PlainNames == ~HasSep(prepend_str) /\ ~HasSep(append_str)

\* the writes of output files (copies and exports), and those of the report
OutputWrites == {k \in 1..Len(writes) : writes[k].kind \in {"copy", "export"}}

ReportWrites == {k \in 1..Len(writes) : writes[k].kind = "report"}

\* the k-th visited file had its output file written
Processed(k) == \E j \in OutputWrites : writes[j].nth = k /\ writes[j].ok

\* the visited files whose output was written, in the order of discovery
RECURSIVE ProcessedFrom(_)
ProcessedFrom(k) ==
  IF k > Len(visited) THEN <<>>
  ELSE (IF Processed(k) THEN <<visited[k]>> ELSE <<>>) \o ProcessedFrom(k + 1)

ProcessedFiles == ProcessedFrom(1)

\* text.split("\n"), and no line at all for an empty text
RECURSIVE SplitLines(_)
SplitLines(text) ==
  IF text = <<>> THEN <<>>
  ELSE LET i == FirstIndex(text, "\n")
       IN IF i = 0 THEN <<text>>
          ELSE <<SubSeq(text, 1, i - 1)>> \o SplitLines(SubSeq(text, i + 1, Len(text)))

\* the lines of dimensions.txt as it is on disk (none when it does not exist)
ReportLines ==
  IF ReportComps \in DOMAIN files THEN SplitLines(files[ReportComps].text) ELSE <<>>

StartsWith(s, prefix) == Len(s) >= Len(prefix) /\ SubSeq(s, 1, Len(prefix)) = prefix

\* the report holds one line per processed file, in discovery order
ReportMatchesProcessed ==
  /\ Len(ReportLines) = Len(ProcessedFiles)
  /\ \A k \in 1..Len(ProcessedFiles) :
       StartsWith(ReportLines[k], ProcessedFiles[k].name \o <<":", " ">>)

(* -------------------------------- claims ------------------------------- *)
\* The files of the tree at the start of the run that the traversal is to
\* reach: the .stl files of the subtree, or of the root alone.
Expected ==
  {q \in DOMAIN tree0 :
     IsStlName(q) /\ (IF recursive THEN InTree(q) ELSE DirectChild(q))}

C1_Visits ==
  /\ \A j, k \in 1..Len(visited) : j # k => visited[j].path # visited[k].path
  /\ ~recursive => \A k \in 1..Len(visited) :
                      DirectChild(visited[k].path) /\ IsStlName(visited[k].path)
  /\ pc = "done" => Expected \subseteq VisitedPaths

\* The number of visits of a run is bounded by the tree it started on: a file
\* written by the run is visited only in a directory that existed before.
VisitBound ==
  Cardinality(Expected) * (1 + Cardinality({d \in dirs0 : InTree(d)}))

\* C1: non-recursive mode never visits a file of a subdirectory, only direct
\* children named *.stl; recursive mode visits every .stl file of the
\* subtree; no file is visited twice; and the traversal makes finitely many
\* visits: never more than the tree the run started on bounds.
C1_Traversal == C1_Visits /\ Len(visited) <= VisitBound

\* C1 witness: a completed recursive run that visited a file of a
\* subdirectory and a file of the root.
C1_Witness ==
  /\ pc = "done" /\ recursive
  /\ \E j, k \in 1..Len(visited) :
       DirectChild(visited[j].path) /\ ~DirectChild(visited[k].path)

\* the directory the claim expects the output of visited file v in:
\* output_root joined with the directory part of v's path relative to
\* input_root
MirrorDir(v) ==
  NormComps(Join(output_directory,
                 Dirname(Relpath(PathOf(v.path), input_directory))))

ParentOf(q) == SubSeq(q, 1, Len(q) - 1)

OutputsMirrorInput ==
  \A j \in OutputWrites :
    writes[j].ok => ParentOf(writes[j].at) = MirrorDir(visited[writes[j].nth])

\* C2 as stated: for every prepend and append value, every output file is
\* written into output_root joined with the directory part of the file's
\* path relative to input_root.
C2_AnyNames == OutputsMirrorInput

\* C2 amended: when neither prepend nor append holds a path separator, every
\* output file is written into output_root joined with the directory part of
\* the file's path relative to input_root.
C2_Mirror == PlainNames => OutputsMirrorInput

\* C2 witness: a renamed output file of a file of a subdirectory was written.
C2_Witness ==
  /\ PlainNames /\ prepend_str # None
  /\ \E j \in OutputWrites :
       writes[j].ok /\ ~DirectChild(visited[writes[j].nth].path)

\* no write of this run went to dimensions.txt
ReportUntouched == \A j \in 1..Len(writes) : writes[j].at # ReportComps

\* C3 as stated: after a completed run with the dimensions flag, the report
\* holds exactly one line per file whose output was written, in discovery
\* order, and no other line; without the flag the run never writes it.
C3_AnyRun ==
  /\ pc = "done" /\ dimensions_flag => ReportMatchesProcessed
  /\ ~dimensions_flag => ReportUntouched

\* C3 amended: after a completed run with the dimensions flag in which at
\* least one file's output was written, the report holds exactly one line per
\* such file, in discovery order, and no other line; when no file's output
\* was written the run leaves dimensions.txt as it was; without the flag the
\* run never writes it.
C3_Report ==
  /\ pc = "done" /\ dimensions_flag /\ ProcessedFiles # <<>> => ReportMatchesProcessed
  /\ pc = "done" /\ dimensions_flag /\ ProcessedFiles = <<>> => ReportUntouched
  /\ ~dimensions_flag => ReportUntouched

\* C3 witness: a completed run with the flag that processed two files and
\* skipped none, over a report left by an earlier use of the directory.
C3_Witness ==
  /\ pc = "done" /\ dimensions_flag
  /\ Len(ProcessedFiles) = 2
  /\ ReportComps \in DOMAIN tree0

\* this step visits a file from which the host loads nothing, and the
\* directory of its output path can be created
SkipStep ==
  /\ Len(visited') = Len(visited) + 1
  /\ visited'[Len(visited')].src.kind # "mesh"
  /\ MakeDirs(dirs, files, visited'[Len(visited')].outdir).ok

\* every visited file that loaded has its output file on disk
LoadedAreWritten ==
  \A k \in 1..Len(visited) :
    visited[k].loaded =>
      \E j \in OutputWrites :
        writes[j].nth = k /\ writes[j].ok /\ writes[j].at \in DOMAIN files

\* the report lines are those of the files that loaded, in discovery order
RECURSIVE LoadedNamesFrom(_)
LoadedNamesFrom(k) ==
  IF k > Len(visited) THEN <<>>
  ELSE (IF visited[k].loaded THEN <<visited[k].name>> ELSE <<>>)
       \o LoadedNamesFrom(k + 1)

LinesAreOfLoaded ==
  /\ Len(dimension_lines) = Len(LoadedNamesFrom(1))
  /\ \A k \in 1..Len(dimension_lines) :
       StartsWith(dimension_lines[k], LoadedNamesFrom(1)[k] \o <<":", " ">>)

\* C4: a file whose import yields no mesh never aborts the run: the step that
\* visits it leaves the run running, with the traversal moved on to the next
\* file name, no dimension line added and no file written; and at normal
\* completion every discovered file that imported has its output file
\* written, and the lines are exactly those of the imported files.
C4_SkipIsHarmless ==
  /\ [][SkipStep => /\ pc' = pc
                    /\ todo' = Tail(todo)
                    /\ dimension_lines' = dimension_lines
                    /\ files' = files]_vars
  /\ [](pc = "done" => LoadedAreWritten /\ LinesAreOfLoaded)

\* C4 witness: a completed run that skipped its first file and wrote the
\* output of a later one.
C4_Witness ==
  /\ pc = "done" /\ Len(visited) >= 2
  /\ visited[1].src.kind = "junk"
  /\ \E k \in 2..Len(visited) : Processed(k)

\* the files other than the report
StlFiles(fs) ==
  [q \in DOMAIN fs \ {ReportComps} |-> fs[q]]

\* C5: a second copy-only run with the same arguments leaves the same set of
\* output files, with the same contents, as the first one left.
C5_Idempotent ==
  pc = "done" /\ run = 2 /\ ~use_blender => StlFiles(files) = StlFiles(first_run)

\* the report changes in this step
ReportChanges ==
  /\ ReportComps \in DOMAIN files'
  /\ ReportComps \in DOMAIN files => files'[ReportComps] # files[ReportComps]

\* C6: in a run dimensions.txt is written at most once; a completed run wrote
\* it exactly once if and only if the dimensions flag is set and at least one
\* dimension line was produced; it is written only after every discovered
\* file has been processed; and nothing of the run changes it afterwards.
C6_SingleFlush ==
  /\ [](Cardinality(ReportWrites) <= 1)
  /\ [](pc = "done" =>
          (Cardinality(ReportWrites) = 1 <=>
             dimensions_flag /\ dimension_lines # <<>>))
  /\ [](ReportWrites # {} => Ended /\ todo = <<>> /\ stack = <<>>)
  /\ [][ReportChanges =>
          /\ ReportWrites = {} /\ Cardinality(ReportWrites') = 1
          /\ todo = <<>> /\ stack = <<>>
          /\ files'[ReportComps].text = JoinLines(dimension_lines)]_vars

\* C6 witness: a completed run over two files that wrote the report.
C6_Witness ==
  pc = "done" /\ Cardinality(ReportWrites) = 1 /\ Len(dimension_lines) = 2

\* the planned output path of visited file v holds the bytes v had
CopiedVerbatim(v) ==
  /\ IsFile(dirs, files, v.out)
  /\ files[Lookup(dirs, v.out).at] = v.src

C8_SkipDiagnostic ==
  \A k \in 1..Len(visited) :
    visited[k].src.kind # "mesh" =>
      \E m \in 1..Len(stdout) :
        stdout[m].msg = "Skipping" /\ NormComps(stdout[m].path) = visited[k].path

AllParentsExist == \A j \in 1..Len(writes) : writes[j].parent

\* this step visits a file whose output directory exists already
ExistingDirStep ==
  /\ Len(visited') = Len(visited) + 1
  /\ IsDir(dirs, visited'[Len(visited')].outdir)

\* C9 as stated: for every prepend and append value, the parent directory of
\* the path of every write (output file or report) exists when it is written.
C9_AnyNames == AllParentsExist

\* C9 amended: when neither prepend nor append holds a path separator, the
\* parent directory of the path of every write (output file or report) exists
\* when it is written; and for every prepend and append value, a step whose
\* output directory exists already does not abort in creating it (it aborts,
\* if at all, in the write it goes on to attempt).
C9_ParentExists ==
  /\ [](PlainNames => AllParentsExist)
  /\ [][ExistingDirStep /\ pc' = "crashed" =>
          /\ Len(writes') = Len(writes) + 1
          /\ ~writes'[Len(writes')].ok]_vars

\* C9 witness: a completed run wrote an output file into a nested directory
\* that the run had to create, wrote a second file into a directory that
\* existed by then, and wrote the report.
C9_Witness ==
  /\ PlainNames /\ pc = "done" /\ ReportWrites # {}
  /\ \E j \in OutputWrites :
       /\ Len(writes[j].at) > Len(OutputComps) + 1
       /\ ParentOf(writes[j].at) \notin dirs0
       /\ writes[j].ok
  /\ \E j, k \in OutputWrites :
       j < k /\ ParentOf(writes[j].at) = ParentOf(writes[k].at) /\ writes[k].ok

\* C10: every exported file is the file's own source, freshly imported, with
\* the requested decimation applied once and the requested resize applied
\* once, and holds no other mesh object.
C10_FreshExport ==
  \A j \in 1..Len(writes) :
    writes[j].kind = "export" =>
      LET v == visited[writes[j].nth]
      IN writes[j].content =
           [kind |-> "mesh", id |-> v.src.id,
            dec |-> v.src.dec + (IF decimation_ratio # None THEN 1 ELSE 0),
            res |-> v.src.res + (IF resize_factor # None THEN 1 ELSE 0),
            objs |-> v.src.objs, text |-> <<>>]

\* C10 witness: with both a ratio and a factor, a second file was exported
\* after a first one had been measured and exported.
C10_Witness ==
  /\ decimation_ratio # None /\ resize_factor # None
  /\ \E j, k \in 1..Len(writes) :
       j < k /\ writes[j].kind = "export" /\ writes[k].kind = "export"
       /\ writes[k].ok

====
